---- MODULE Spec2Model ----
(***************************************************************************)
(* Model of panopticon/main.py: the workspace cache (clone_repo) and the   *)
(* analysis pipeline (analyze_code_quality and the analyzer wrappers).     *)
(*                                                                         *)
(* Python strings are sequences of tokens (each token a short string), so  *)
(* that f-string concatenation is \o and str.replace is a sub-sequence     *)
(* replacement.  Optional[...] values are records [some, val].             *)
(***************************************************************************)
EXTENDS Naturals, Sequences, FiniteSets, TLC

\* ------------------------------------------------------------------ bounds
\* Number of calls (requests) one behaviour issues.
MaxCalls == 2
\* Number of files in a directory tree given to detect_repository_languages.
MaxFiles == 3

\* ------------------------------------------------------------- Python values
None == [some |-> FALSE, val |-> <<>>]
Some(s) == [some |-> TRUE, val |-> s]
\* Truthiness of an Optional[str]: None and '' are falsy.
Truthy(o) == o.some /\ o.val # <<>>

Contains(s, tok) == \E i \in 1..Len(s) : s[i] = tok

RECURSIVE str_replace(_, _, _)
\* s.replace(old, new): every occurrence, left to right (old is non-empty).
str_replace(s, old, new) ==
    IF Len(s) < Len(old) THEN s
    ELSE IF SubSeq(s, 1, Len(old)) = old
         THEN new \o str_replace(SubSeq(s, Len(old) + 1, Len(s)), old, new)
         ELSE <<Head(s)>> \o str_replace(Tail(s), old, new)

RECURSIVE SetToSeq(_)
SetToSeq(S) ==
    IF S = {} THEN <<>>
    ELSE LET e == CHOOSE x \in S : TRUE IN <<e>> \o SetToSeq(S \ {e})

\* ---------------------------------------------------------------- inputs
UrlGitlabHttps == <<"https://", "gitlab.com", "/grp/repo.git">>
UrlGitlabSsh == <<"git@", "gitlab.com", ":", "grp/repo.git">>
UrlGithub == <<"https://", "github.com", "/grp/repo.git">>
RepoUrls == {UrlGitlabHttps, UrlGithub}

\* gitlab_credentials: absent, present with an empty api_key, present.
Credentials == {None, Some(<<>>), Some(<<"k1">>)}
\* branch: absent, a branch that is named "default", another branch.
Branches == {None, Some(<<"default">>), Some(<<"dev">>)}

Identities == [repo_url : RepoUrls, gitlab_credentials : Credentials, branch : Branches]
NoArgs == [repo_url |-> <<>>, gitlab_credentials |-> None, branch |-> None]

\* ------------------------------------------------- get_authenticated_url
get_authenticated_url(repo_url, gitlab_credentials) ==
    IF ~gitlab_credentials.some THEN repo_url
    ELSE IF Contains(repo_url, "gitlab.com")
         THEN IF Head(repo_url) = "https://"
              THEN str_replace(repo_url, <<"https://">>,
                       <<"https://", "oauth2:">> \o gitlab_credentials.val \o <<"@">>)
              ELSE IF Head(repo_url) = "git@"
                   THEN str_replace(repo_url, <<"git@", "gitlab.com", ":">>,
                            <<"https://", "oauth2:">> \o gitlab_credentials.val
                                \o <<"@", "gitlab.com", "/">>)
                   ELSE repo_url
         ELSE repo_url

\* ------------------------------------------------------------- cache key
\* f"{repo_url}:{api_key if gitlab_credentials else ''}:{branch or 'default'}"
cache_key_of(repo_url, gitlab_credentials, branch) ==
    repo_url \o <<":">>
        \o (IF gitlab_credentials.some THEN gitlab_credentials.val ELSE <<>>)
        \o <<":">>
        \o (IF Truthy(branch) THEN branch.val ELSE <<"default">>)

AllCacheKeys ==
    {cache_key_of(a.repo_url, a.gitlab_credentials, a.branch) : a \in Identities}
KeySeq == SetToSeq(AllCacheKeys)

\* sha256(cache_key).hexdigest()[:12], taken as an injective digest: the
\* index of the key string in an enumeration of all key strings.
repo_hash(k) == CHOOSE i \in 1..Len(KeySeq) : KeySeq[i] = k

\* The slot directories, tempdir/repo_cache_<repo_hash>.
Dirs == 1..Len(KeySeq)

\* line 275: the name of a slot directory, f"repo_cache_{repo_hash}".
SlotName(d) == <<"repo_cache_", ToString(d)>>

\* ------------------------------------------------------ language tables
\* LANGUAGE_PATTERNS, in the dict's order.
LangOrder == <<"go", "java", "python", "javascript">>
Langs == {LangOrder[i] : i \in 1..Len(LangOrder)}
LANGUAGE_PATTERNS ==
    [l \in Langs |->
        CASE l = "go" ->
               [extensions |-> {".go"},
                markers |-> {"package ", "import (", "func "}]
          [] l = "java" ->
               [extensions |-> {".java", ".kt", ".scala"},
                markers |-> {"public class", "package ", "import java"}]
          [] l = "python" ->
               [extensions |-> {".py", ".pyx", ".pyi"},
                markers |-> {"def ", "class ", "import ", "from "}]
          [] l = "javascript" ->
               [extensions |-> {".js", ".jsx", ".ts", ".tsx"},
                markers |-> {"function", "const ", "let ", "import "}]]

\* ANALYSIS_TOOLS.get(lang, [])
ANALYSIS_TOOLS(lang) ==
    CASE lang = "go" -> {"gocyclo", "golangci-lint", "trivy"}
      [] lang = "java" -> {"pmd", "trivy"}
      [] lang = "python" -> {"pylint", "bandit", "trivy"}
      [] lang = "javascript" -> {"eslint", "trivy"}
      [] OTHER -> {}

\* ------------------------------------------------------ language detection
\* line 480: the size in bytes above which a file is skipped.
SizeCeiling == 1000000

\* A file os.walk yields: the path of its directory under repo_path, its
\* size in bytes, its extension, whether it can be read as UTF-8 and the
\* marker tokens that occur in the 1024 characters f.read(1024) returns.
File(ext, markers) ==
    [root |-> <<"/src">>, size |-> 1024, ext |-> ext, readable |-> TRUE,
     markers |-> markers]

\* lines 472-495 as mutated: the markers are not looked for.
CountedByExtension(f, lang) ==
    /\ ~Contains(f.root, ".git")
    /\ ~(f.size > SizeCeiling)
    /\ f.ext \in LANGUAGE_PATTERNS[lang].extensions
    /\ f.readable

\* lines 472-495: the file adds one to file_count[lang].
Counted(f, lang) ==
    /\ ~Contains(f.root, ".git")
    /\ ~(f.size > SizeCeiling)
    /\ f.ext \in LANGUAGE_PATTERNS[lang].extensions
    /\ f.readable
    /\ f.markers \cap LANGUAGE_PATTERNS[lang].markers # {}

\* file_count[lang] after the walk.
file_count(files, lang) == Cardinality({i \in 1..Len(files) : Counted(files[i], lang)})

RECURSIVE SumCounts(_, _)
SumCounts(files, ls) ==
    IF ls = <<>> THEN 0 ELSE file_count(files, Head(ls)) + SumCounts(files, Tail(ls))

\* lines 493-494 as mutated: every file walked adds one to total_files.
total_files_walked(files) == Len(files)

\* total_files after the walk.
total_files(files) == SumCounts(files, LangOrder)

RECURSIVE InsertionOrder(_, _)
\* The keys of file_count in the order the walk first counts them.
InsertionOrder(files, seen) ==
    IF files = <<>> THEN seen
    ELSE InsertionOrder(Tail(files),
             seen \o SelectSeq(LangOrder,
                        LAMBDA l : Counted(Head(files), l) /\ ~Contains(seen, l)))

\* lines 462-502: the dict lang -> count / total_files, as a sequence of
\* entries in insertion order; a confidence is the fraction num/den.
detect_repository_languages(files) ==
    LET keys == InsertionOrder(files, <<>>) IN
    IF total_files(files) > 0
    THEN [i \in 1..Len(keys) |->
             [lang |-> keys[i], num |-> file_count(files, keys[i]),
              den |-> total_files(files)]]
    ELSE <<>>

\* lines 508 and 833 as mutated: the threshold is above one half.
MeetsThresholdAboveHalf(e) == e.num * 2 > e.den

\* confidence >= 0.1
MeetsThreshold(e) == e.num * 10 >= e.den

\* lines 504-512: the union of the tools of the languages meeting the threshold.
get_analysis_tools(languages) ==
    UNION {ANALYSIS_TOOLS(languages[i].lang) :
               i \in {j \in 1..Len(languages) : MeetsThreshold(languages[j])}}

\* lines 514-531: the wrappers run_language_specific_analysis calls, in order.
LanguageSpecificTools(lang) ==
    CASE lang = "go" -> <<"gocyclo">>
      [] lang = "java" -> <<"pmd">>
      [] lang = "python" -> <<"pylint", "bandit">>
      [] lang = "javascript" -> <<"eslint">>
      [] OTHER -> <<>>

RECURSIVE ToolPlan(_)
\* lines 832-837: the runs the loop over detected_languages makes, then Trivy.
ToolPlan(languages) ==
    IF languages = <<>> THEN <<[lang |-> "security_scan", tool |-> "trivy"]>>
    ELSE LET e == Head(languages)
             ts == IF MeetsThreshold(e) THEN LanguageSpecificTools(e.lang) ELSE <<>>
         IN [i \in 1..Len(ts) |-> [lang |-> e.lang, tool |-> ts[i]]]
                \o ToolPlan(Tail(languages))

\* str.lower() on the language names used as inputs.
lower(tok) == CASE tok = "Java" -> "java" [] tok = "GO" -> "go" [] OTHER -> tok

\* lines 327-335: str or dict credentials to Optional[GitLabCredentials].
create_gitlab_credentials(creds) ==
    IF creds.type = "none" \/ (creds.type = "str" /\ creds.api_key = <<>>) THEN None
    ELSE Some(creds.api_key)

\* ------------------------------------------------------ analyzer processes
\* What an analyzer executable does when subprocess.run starts it: the spawn
\* fails (binary missing: FileNotFoundError; not executable: PermissionError),
\* or the process runs and never exits, or exits with a code and a stdout
\* that is empty, well-formed or malformed for its parser.
Behaviour(spawn, exits, code, stdout) ==
    [spawn |-> spawn, exits |-> exits, code |-> code, stdout |-> stdout]
Missing == Behaviour("missing", TRUE, 0, "empty")
Denied == Behaviour("denied", TRUE, 0, "empty")
Hangs == Behaviour("ok", FALSE, 0, "empty")
Exited == {Behaviour("ok", TRUE, c, o) : c \in {0, 1}, o \in {"empty", "valid", "malformed"}}
Behaviours == {Missing, Denied, Hangs} \cup Exited

\* What a wrapper gives back: a dict (error: it has an "error" key; value:
\* the message or the kind of payload), or an exception it does not catch.
Ok(value) == [raises |-> FALSE, error |-> FALSE, value |-> value]
Err(msg) == [raises |-> FALSE, error |-> TRUE, value |-> msg]
Raises(exc) == [raises |-> TRUE, error |-> TRUE, value |-> exc]
NoResult == [raises |-> FALSE, error |-> FALSE, value |-> "none"]

\* lines 368-383 as mutated: FileNotFoundError is not caught.
run_trivy_scan_uncaught(b) ==
    IF b.spawn = "missing" THEN Raises("FileNotFoundError")
    ELSE IF b.spawn = "denied" THEN Raises("PermissionError")
    ELSE IF b.code # 0 THEN Err("Trivy scan failed")
    ELSE IF b.stdout = "valid" THEN Ok("parsed")
    ELSE Err("Failed to parse Trivy output")

\* lines 368-383: check=True, json.loads(stdout); three exceptions caught.
run_trivy_scan(b) ==
    IF b.spawn = "missing" THEN Err("Trivy not installed")
    ELSE IF b.spawn = "denied" THEN Raises("PermissionError")
    ELSE IF b.code # 0 THEN Err("Trivy scan failed")
    ELSE IF b.stdout = "valid" THEN Ok("parsed")
    ELSE Err("Failed to parse Trivy output")

\* lines 385-427 as mutated: an empty stdout is reported as an error.
run_gocyclo_analysis_empty_is_error(b) ==
    IF b.spawn = "missing" THEN Err("gocyclo not installed")
    ELSE IF b.spawn = "denied" THEN Err("Failed to run gocyclo")
    ELSE IF b.stdout = "empty" THEN Err("No output from gocyclo")
    ELSE IF b.stdout = "valid" THEN Ok("metrics")
    ELSE Err("Failed to run gocyclo")

\* lines 385-427: the exit code is not looked at; an empty stdout leaves the
\* metrics empty; a line whose first field is no integer raises ValueError.
run_gocyclo_analysis(b) ==
    IF b.spawn = "missing" THEN Err("gocyclo not installed")
    ELSE IF b.spawn = "denied" THEN Err("Failed to run gocyclo")
    ELSE IF b.stdout = "empty" THEN Ok("no_findings")
    ELSE IF b.stdout = "valid" THEN Ok("metrics")
    ELSE Err("Failed to run gocyclo")

\* lines 429-460: whatever PMD wrote to the report file is returned raw.
run_pmd_analysis(b) ==
    IF b.spawn = "missing" THEN Err("PMD not installed")
    ELSE IF b.spawn = "denied" THEN Err("Failed to run PMD")
    ELSE Ok("raw_output")

\* lines 533-543: json.loads(stdout) if stdout, else an error; every
\* exception is caught.
run_pylint_analysis(b) ==
    IF b.spawn # "ok" THEN Err("Pylint analysis failed")
    ELSE IF b.stdout = "empty" THEN Err("No output from pylint")
    ELSE IF b.stdout = "valid" THEN Ok("parsed")
    ELSE Err("Pylint analysis failed")

\* lines 545-555
run_bandit_analysis(b) ==
    IF b.spawn # "ok" THEN Err("Bandit analysis failed")
    ELSE IF b.stdout = "empty" THEN Err("No output from bandit")
    ELSE IF b.stdout = "valid" THEN Ok("parsed")
    ELSE Err("Bandit analysis failed")

\* lines 557-567
run_eslint_analysis(b) ==
    IF b.spawn # "ok" THEN Err("ESLint analysis failed")
    ELSE IF b.stdout = "empty" THEN Err("No output from eslint")
    ELSE IF b.stdout = "valid" THEN Ok("parsed")
    ELSE Err("ESLint analysis failed")

\* The wrapper that runs a tool.
RunWrapper(tool, b) ==
    CASE tool = "trivy" -> run_trivy_scan(b)
      [] tool = "gocyclo" -> run_gocyclo_analysis(b)
      [] tool = "pmd" -> run_pmd_analysis(b)
      [] tool = "pylint" -> run_pylint_analysis(b)
      [] tool = "bandit" -> run_bandit_analysis(b)
      [] tool = "eslint" -> run_eslint_analysis(b)

\* The dicts analyze_code_quality returns.
NoReport == [status |-> "none", error |-> "", analysis |-> <<>>, security_scan |-> NoResult]
ErrorReport(msg) ==
    [status |-> "error", error |-> msg, analysis |-> <<>>, security_scan |-> NoResult]
NewResults == [status |-> "success", error |-> "", analysis |-> <<>>, security_scan |-> NoResult]

\* ------------------------------------------------------------ file system
Absent == [kind |-> "absent", remote |-> <<>>, head |-> <<>>]
EmptyDir == [kind |-> "empty", remote |-> <<>>, head |-> <<>>]
RepoAt(url, branch) ==
    [kind |-> "repo", remote |-> url,
     head |-> IF Truthy(branch) THEN branch.val ELSE <<"HEAD">>]
PartialAt(url) == [kind |-> "partial", remote |-> url, head |-> <<>>]

Procs == {"p1", "p2"}

VARIABLES
    fs,                 \* Dirs -> slot directory state
    pc,                 \* per process: position in the handler
    op,                 \* per process: the handler running
    args,               \* per process: repo_url, gitlab_credentials, branch
    cache_key,          \* per process: local cache_key of clone_repo
    temp_dir,           \* per process: local temp_dir of clone_repo (a Dirs index)
    authenticated_url,  \* per process: local authenticated_url of clone_repo
    entry,              \* per process: the slot as found by os.path.exists
    trace,              \* per process: version-control operations of this call
    ret,                \* per process: returned path (a Dirs index), 0 if none
    last,               \* per process: the previous call of the process
    dirty,              \* the cache was altered from outside since the last call began
    calls,              \* number of calls issued
    language,           \* per process: language argument of analyze_code_quality
    workspace,          \* per process: the files os.walk finds in repo_path
    detected_languages, \* per process: dict lang -> confidence, in insertion order
    todo,               \* per process: the tool runs still to make, in order
    child,              \* per process: the analyzer process subprocess.run waits for
    results,            \* per process: the report under construction / returned
    runlog              \* per process: the tool runs made: tool, behaviour, result

cacheVars == <<fs, pc, op, args, cache_key, temp_dir, authenticated_url, entry,
               trace, ret, last, dirty, calls>>
analysisVars == <<language, workspace, detected_languages, todo, child, results, runlog>>
vars == <<cacheVars, analysisVars>>

NoLast == [valid |-> FALSE, args |-> NoArgs, cache_key |-> <<>>, outcome |-> "idle",
           ret |-> 0, failed |-> FALSE, disturbed |-> FALSE]

FailOps == {"open!", "fetch!", "checkout!", "clone!"}
Failed(p) == \E i \in 1..Len(trace[p]) : trace[p][i] \in FailOps

\* The handler of p has finished (or p never ran one).
CallDone(p) ==
    \/ pc[p] = "idle"
    \/ op[p] = "clone_repo" /\ pc[p] \in {"returned", "raised"}
    \/ pc[p] \in {"responded", "escaped"}

Init ==
    /\ fs = [d \in Dirs |-> Absent]
    /\ pc = [p \in Procs |-> "idle"]
    /\ op = [p \in Procs |-> "none"]
    /\ args = [p \in Procs |-> NoArgs]
    /\ cache_key = [p \in Procs |-> <<>>]
    /\ temp_dir = [p \in Procs |-> 1]
    /\ authenticated_url = [p \in Procs |-> <<>>]
    /\ entry = [p \in Procs |-> Absent]
    /\ trace = [p \in Procs |-> <<>>]
    /\ ret = [p \in Procs |-> 0]
    /\ last = [p \in Procs |-> NoLast]
    /\ dirty = FALSE
    /\ calls = 0
    /\ language = [p \in Procs |-> None]
    /\ workspace = [p \in Procs |-> <<>>]
    /\ detected_languages = [p \in Procs |-> <<>>]
    /\ todo = [p \in Procs |-> <<>>]
    /\ child = [p \in Procs |-> Missing]
    /\ results = [p \in Procs |-> NoReport]
    /\ runlog = [p \in Procs |-> <<>>]

\* clone_repo lines 270-277: entry, cache key, slot directory, authenticated URL.
EnterCloneRepo(p, a, o) ==
    /\ CallDone(p)
    /\ calls < MaxCalls
    /\ calls' = calls + 1
    /\ op' = [op EXCEPT ![p] = o]
    /\ args' = [args EXCEPT ![p] = a]
    /\ cache_key' = [cache_key EXCEPT
           ![p] = cache_key_of(a.repo_url, a.gitlab_credentials, a.branch)]
    /\ temp_dir' = [temp_dir EXCEPT
           ![p] = repo_hash(cache_key_of(a.repo_url, a.gitlab_credentials, a.branch))]
    /\ authenticated_url' = [authenticated_url EXCEPT
           ![p] = get_authenticated_url(a.repo_url, a.gitlab_credentials)]
    /\ last' = [last EXCEPT ![p] =
           [valid |-> pc[p] # "idle", args |-> args[p], cache_key |-> cache_key[p],
            outcome |-> pc[p], ret |-> ret[p], failed |-> Failed(p),
            disturbed |-> dirty]]
    /\ dirty' = FALSE
    /\ trace' = [trace EXCEPT ![p] = <<>>]
    /\ ret' = [ret EXCEPT ![p] = 0]
    /\ entry' = [entry EXCEPT ![p] = Absent]
    /\ pc' = [pc EXCEPT ![p] = "exists"]
    /\ UNCHANGED fs

\* ------------------------------------------------------------ clone_repo
Goto(p, l) == pc' = [pc EXCEPT ![p] = l]
Log(p, e) == trace' = [trace EXCEPT ![p] = Append(@, e)]
SetSlot(p, s) == fs' = [fs EXCEPT ![temp_dir[p]] = s]
cloneLocals == <<op, args, cache_key, temp_dir, authenticated_url, last, dirty, calls,
                 analysisVars>>

\* Repo(temp_dir) succeeds on a repository (bare or not); on a clone in
\* progress the outcome depends on how far the other clone got (raced).
RepoOpens(s, raced) == s.kind \in {"repo", "bare"} \/ (s.kind = "partial" /\ raced)

\* line 283 as mutated: the recorded remote is not compared.
SlotReusableNoRemoteCheck(s, url) == s.kind # "bare"

\* line 283 as mutated: an opened slot is never reused.
SlotReusableNever(s, url) == FALSE

\* line 283: not repo.bare and repo.remote().url == authenticated_url
SlotReusable(s, url) == s.kind # "bare" /\ s.remote = url

\* line 280: os.path.exists(temp_dir)
Exists(p) ==
    /\ pc[p] = "exists"
    /\ entry' = [entry EXCEPT ![p] = fs[temp_dir[p]]]
    /\ Goto(p, IF fs[temp_dir[p]].kind # "absent" THEN "open" ELSE "makedirs")
    /\ UNCHANGED <<fs, trace, ret, cloneLocals>>

\* lines 282-283: open the slot and compare its remote; any exception
\* (Repo() fails, no remote configured) goes to the bare except of line 290.
Open(p) ==
    /\ pc[p] = "open"
    /\ \E raced \in BOOLEAN :
        LET s == fs[temp_dir[p]] IN
        /\ (s.kind # "partial" => ~raced)
        /\ IF ~RepoOpens(s, raced) \/ (s.kind # "bare" /\ s.remote = <<>>)
           THEN Log(p, "open!") /\ Goto(p, "rm_except")
           ELSE /\ Log(p, "open")
                /\ Goto(p, IF SlotReusable(s, authenticated_url[p])
                           THEN "fetch" ELSE "rm_mismatch")
    /\ UNCHANGED <<fs, entry, ret, cloneLocals>>

\* line 284: repo.remote().fetch(); ok is the environment's answer.  The
\* fetch cannot succeed on a slot another call has removed meanwhile.
Fetch(p) ==
    /\ pc[p] = "fetch"
    /\ \E ok \in BOOLEAN :
        /\ (ok => fs[temp_dir[p]].kind \in {"repo", "partial"})
        /\ IF ok
           THEN /\ Log(p, "fetch")
                /\ IF Truthy(args[p].branch)
                   THEN Goto(p, "checkout") /\ UNCHANGED ret
                   ELSE Goto(p, "returned") /\ ret' = [ret EXCEPT ![p] = temp_dir[p]]
           ELSE Log(p, "fetch!") /\ Goto(p, "rm_except") /\ UNCHANGED ret
    /\ UNCHANGED <<fs, entry, cloneLocals>>

\* lines 285-287: repo.git.checkout(branch), then return temp_dir.
Checkout(p) ==
    /\ pc[p] = "checkout"
    /\ \E ok \in BOOLEAN :
        /\ (ok => fs[temp_dir[p]].kind = "repo")
        /\ IF ok
           THEN /\ Log(p, "checkout")
                /\ SetSlot(p, [fs[temp_dir[p]] EXCEPT !.head = args[p].branch.val])
                /\ Goto(p, "returned")
                /\ ret' = [ret EXCEPT ![p] = temp_dir[p]]
           ELSE Log(p, "checkout!") /\ Goto(p, "rm_except") /\ UNCHANGED <<fs, ret>>
    /\ UNCHANGED <<entry, cloneLocals>>

\* lines 289 and 291: shutil.rmtree(temp_dir, ignore_errors=True)
RmTree(p) ==
    /\ pc[p] \in {"rm_mismatch", "rm_except"}
    /\ SetSlot(p, Absent)
    /\ Log(p, "rmtree")
    /\ Goto(p, "makedirs")
    /\ UNCHANGED <<entry, ret, cloneLocals>>

\* line 294: os.makedirs(temp_dir, exist_ok=True)
MakeDirs(p) ==
    /\ pc[p] = "makedirs"
    /\ SetSlot(p, IF fs[temp_dir[p]].kind = "absent" THEN EmptyDir ELSE fs[temp_dir[p]])
    /\ Log(p, "makedirs")
    /\ Goto(p, "clone")
    /\ UNCHANGED <<entry, ret, cloneLocals>>

\* lines 296-299: Repo.clone_from starts.  It refuses a directory that is
\* not empty, may fail at once (ok = FALSE), or starts writing the clone.
CloneBegin(p) ==
    /\ pc[p] = "clone"
    /\ \E ok \in BOOLEAN :
        /\ (ok => fs[temp_dir[p]].kind \in {"absent", "empty"})
        /\ IF ok
           THEN /\ SetSlot(p, PartialAt(authenticated_url[p]))
                /\ Goto(p, "cloning")
                /\ UNCHANGED trace
           ELSE Log(p, "clone!") /\ Goto(p, "rm_clonefail") /\ UNCHANGED fs
    /\ UNCHANGED <<entry, ret, cloneLocals>>

\* lines 296-300: Repo.clone_from ends: the slot holds the clone and
\* temp_dir is returned, or the clone failed part-way (its files may stay).
CloneEnd(p) ==
    /\ pc[p] = "cloning"
    /\ \E ok \in BOOLEAN :
        /\ (ok => fs[temp_dir[p]].kind = "partial")
        /\ IF ok
           THEN /\ SetSlot(p, RepoAt(authenticated_url[p], args[p].branch))
                /\ Log(p, "clone")
                /\ Goto(p, "returned")
                /\ ret' = [ret EXCEPT ![p] = temp_dir[p]]
           ELSE /\ \E junk \in BOOLEAN :
                    SetSlot(p, IF junk \/ fs[temp_dir[p]].kind # "partial"
                               THEN fs[temp_dir[p]] ELSE EmptyDir)
                /\ Log(p, "clone!")
                /\ Goto(p, "rm_clonefail")
                /\ UNCHANGED ret
    /\ UNCHANGED <<entry, cloneLocals>>

\* lines 301-303 as mutated: the partial directory is not removed.
RmCloneFailKeepsDir(p) ==
    /\ pc[p] = "rm_clonefail"
    /\ Log(p, "rmtree")
    /\ Goto(p, "raised")
    /\ UNCHANGED <<fs, entry, ret, cloneLocals>>

\* lines 301-303: shutil.rmtree(temp_dir, ignore_errors=True); raise
RmCloneFail(p) ==
    /\ pc[p] = "rm_clonefail"
    /\ SetSlot(p, Absent)
    /\ Log(p, "rmtree")
    /\ Goto(p, "raised")
    /\ UNCHANGED <<entry, ret, cloneLocals>>

\* The steps of clone_repo after its entry.
CloneRepoStep(p) ==
    \/ Exists(p)
    \/ Open(p)
    \/ Fetch(p)
    \/ Checkout(p)
    \/ RmTree(p)
    \/ MakeDirs(p)
    \/ CloneBegin(p)
    \/ CloneEnd(p)
    \/ RmCloneFail(p)

\* A handler that only acquires the workspace (analyze_repository_structure,
\* enumerate_branches, ...) calls clone_repo.
CallCloneRepo(p) ==
    /\ \E a \in Identities : EnterCloneRepo(p, a, "clone_repo")
    /\ UNCHANGED analysisVars

\* ------------------------------------------------- analyze_code_quality
\* Inputs of analyze_code_quality.
RawCredentials == {[type |-> "none", api_key |-> <<>>], [type |-> "str", api_key |-> <<"k1">>]}
AnalyzeInputs ==
    [repo_url : {UrlGitlabHttps}, gitlab_credentials : RawCredentials,
     branch : {None, Some(<<"dev">>)}]
LanguageArgs ==
    {None, Some(<<>>), Some(<<"GO">>), Some(<<"java">>), Some(<<"python">>),
     Some(<<"javascript">>), Some(<<"rust">>)}

GoFile == File(".go", {"package ", "func "})
JavaFile == File(".java", {"public class", "package "})
PyFile == File(".py", {"def ", "import "})
JsFile == File(".js", {"const "})
GoTemplate == File(".go", {})
Readme == File(".md", {"import "})
Workspaces ==
    {<<>>, <<Readme, GoTemplate>>, <<GoFile>>, <<GoFile, JavaFile>>, <<JavaFile, GoFile>>,
     <<PyFile, Readme>>, <<JsFile>>}

\* lines 802-804: create_gitlab_credentials, then clone_repo is entered.
CallAnalyze(p) ==
    /\ \E a \in AnalyzeInputs :
           EnterCloneRepo(p, [repo_url |-> a.repo_url,
                              gitlab_credentials |-> create_gitlab_credentials(a.gitlab_credentials),
                              branch |-> a.branch],
                          "analyze_code_quality")
    /\ \E l \in LanguageArgs : language' = [language EXCEPT ![p] = l]
    /\ workspace' = [workspace EXCEPT ![p] = <<>>]
    /\ detected_languages' = [detected_languages EXCEPT ![p] = <<>>]
    /\ todo' = [todo EXCEPT ![p] = <<>>]
    /\ results' = [results EXCEPT ![p] = NoReport]
    /\ runlog' = [runlog EXCEPT ![p] = <<>>]
    /\ UNCHANGED child

\* lines 809-830: the two early returns, or the report is started and the
\* tool runs are planned.
SelectTools(p, languages) ==
    /\ detected_languages' = [detected_languages EXCEPT ![p] = languages]
    /\ IF languages = <<>>
       THEN /\ results' = [results EXCEPT
                   ![p] = ErrorReport("No supported programming languages detected")]
            /\ Goto(p, "responded")
            /\ UNCHANGED todo
       ELSE IF get_analysis_tools(languages) = {}
       THEN /\ results' = [results EXCEPT
                   ![p] = ErrorReport("No suitable analysis tools found for detected languages")]
            /\ Goto(p, "responded")
            /\ UNCHANGED todo
       ELSE /\ results' = [results EXCEPT ![p] = NewResults]
            /\ todo' = [todo EXCEPT ![p] = ToolPlan(languages)]
            /\ Goto(p, "run")

\* lines 806-830: clone_repo has returned; detect the languages (or take the
\* override) and select the tools.
Detect(p) ==
    /\ op[p] = "analyze_code_quality"
    /\ pc[p] = "returned"
    /\ IF ~Truthy(language[p])
       THEN \E ws \in Workspaces :
                /\ workspace' = [workspace EXCEPT ![p] = ws]
                /\ SelectTools(p, detect_repository_languages(ws))
       ELSE /\ UNCHANGED workspace
            /\ SelectTools(p, <<[lang |-> lower(language[p].val[1]), num |-> 1, den |-> 1]>>)
    /\ UNCHANGED <<fs, op, args, cache_key, temp_dir, authenticated_url, entry, trace,
                   ret, last, dirty, calls, language, child, runlog>>

\* The exceptions raised in analyze_code_quality: Exception by clone_repo
\* (line 303), FileNotFoundError and PermissionError by subprocess.run.
Exceptions == {"Exception", "FileNotFoundError", "PermissionError"}

\* line 841 as mutated: only the failure of clone_repo is caught.
ExceptExceptionCloneOnly(exc) == exc = "Exception"

\* line 841: except Exception catches every one of them.
ExceptException(exc) == exc \in Exceptions

\* lines 841-845: the exception is turned into the error report, or (not
\* caught) leaves analyze_code_quality.
Handle(p, exc) ==
    IF ExceptException(exc)
    THEN /\ results' = [results EXCEPT ![p] = ErrorReport("Code quality analysis failed")]
         /\ Goto(p, "responded")
    ELSE /\ UNCHANGED results
         /\ Goto(p, "escaped")

\* subprocess.run starts the analyzer of the next planned run.
Spawn(p) ==
    /\ pc[p] = "run"
    /\ \E b \in Behaviours : child' = [child EXCEPT ![p] = b]
    /\ Goto(p, "wait")
    /\ UNCHANGED <<fs, op, args, cache_key, temp_dir, authenticated_url, entry, trace,
                   ret, last, dirty, calls, language, workspace, detected_languages,
                   todo, results, runlog>>

\* subprocess.run returns or raises (no timeout is passed: it returns only
\* when the process has exited); the wrapper's dict is stored in the report,
\* and after the last run (Trivy, line 837) the report is returned.  An
\* exception the wrapper lets through reaches the except of line 841.
Complete(p) ==
    /\ pc[p] = "wait"
    /\ child[p].spawn # "ok" \/ child[p].exits
    /\ LET run == Head(todo[p])
           r == RunWrapper(run.tool, child[p])
       IN /\ runlog' = [runlog EXCEPT ![p] =
                 Append(@, [lang |-> run.lang, tool |-> run.tool,
                            behaviour |-> child[p], result |-> r])]
          /\ todo' = [todo EXCEPT ![p] = Tail(@)]
          /\ IF r.raises
             THEN Handle(p, r.value)
             ELSE IF run.lang = "security_scan"
             THEN /\ results' = [results EXCEPT ![p].security_scan = r]
                  /\ Goto(p, "responded")
             ELSE /\ results' = [results EXCEPT ![p].analysis =
                         Append(@, [lang |-> run.lang, tool |-> run.tool, result |-> r])]
                  /\ Goto(p, "run")
    /\ UNCHANGED <<fs, op, args, cache_key, temp_dir, authenticated_url, entry, trace,
                   ret, last, dirty, calls, language, workspace, detected_languages,
                   child>>

\* lines 841-845: clone_repo raised; the error report is returned.
CloneRaised(p) ==
    /\ op[p] = "analyze_code_quality"
    /\ pc[p] = "raised"
    /\ Handle(p, "Exception")
    /\ UNCHANGED <<fs, op, args, cache_key, temp_dir, authenticated_url, entry, trace,
                   ret, last, dirty, calls, language, workspace, detected_languages,
                   todo, child, runlog>>

\* The steps of analyze_code_quality after clone_repo.
AnalyzeStep(p) ==
    \/ Detect(p)
    \/ Spawn(p)
    \/ Complete(p)
    \/ CloneRaised(p)

\* ------------------------------------------------------------ environment
OtherRemote == <<"https://", "example.org", "/other.git">>

\* The slot of an idle cache is altered from outside: its recorded remote is
\* rewritten, it is made bare, or its repository data is damaged.
Mutate(d) ==
    /\ \A p \in Procs : CallDone(p)
    /\ ~dirty
    /\ fs[d].kind = "repo"
    /\ \E s \in {[fs[d] EXCEPT !.remote = OtherRemote],
                 [fs[d] EXCEPT !.kind = "bare"],
                 [fs[d] EXCEPT !.kind = "corrupt"]} :
           fs' = [fs EXCEPT ![d] = s]
    /\ dirty' = TRUE
    /\ UNCHANGED <<pc, op, args, cache_key, temp_dir, authenticated_url, entry,
                   trace, ret, last, calls, analysisVars>>

\* ---------------------------------------------------------- specifications
SeqProcs == {"p1"}

\* Non-overlapping calls of clone_repo, and outside changes between them.
Next ==
    \/ \E p \in SeqProcs : CallCloneRepo(p)
    \/ \E p \in SeqProcs : CloneRepoStep(p)
    \/ \E d \in Dirs : Mutate(d)

Spec == Init /\ [][Next]_vars

\* Concurrent calls of clone_repo (several server processes share the
\* temporary directory).
NextConc ==
    \/ \E p \in Procs : CallCloneRepo(p)
    \/ \E p \in Procs : CloneRepoStep(p)

SpecConc == Init /\ [][NextConc]_vars

\* Non-overlapping requests to analyze_code_quality.
NextAnalyze ==
    \/ \E p \in SeqProcs : CallAnalyze(p)
    \/ \E p \in SeqProcs : CloneRepoStep(p)
    \/ \E p \in SeqProcs : AnalyzeStep(p)

SpecAnalyze == Init /\ [][NextAnalyze]_vars

\* ------------------------------------------- detect_repository_languages
\* Files of the tree: a Kotlin file, and Go files under .git, under .github
\* (its path contains '.git' too), of exactly the ceiling size, one byte
\* larger, not decodable as UTF-8, and with a marker of Java only.
KtFile == File(".kt", {"package "})
GoInGit == [GoFile EXCEPT !.root = <<"/", ".git", "/hooks">>]
GoInGithub == [GoFile EXCEPT !.root = <<"/", ".git", "hub/workflows">>]
GoAtCeiling == [GoFile EXCEPT !.size = SizeCeiling]
GoBig == [GoFile EXCEPT !.size = SizeCeiling + 1]
GoBinary == [GoFile EXCEPT !.readable = FALSE]
GoJavaMarker == File(".go", {"public class"})
DetectFiles ==
    {GoFile, JavaFile, PyFile, JsFile, KtFile, GoTemplate, Readme, GoInGit, GoInGithub,
     GoAtCeiling, GoBig, GoBinary, GoJavaMarker}

\* The trees: the files os.walk yields, in its order.
Trees == UNION {[1..n -> DetectFiles] : n \in 0..MaxFiles}

\* detect_repository_languages is about to walk a tree.
InitDetect ==
    /\ fs = [d \in Dirs |-> Absent]
    /\ pc = [p \in Procs |-> IF p \in SeqProcs THEN "walk" ELSE "idle"]
    /\ op = [p \in Procs |-> IF p \in SeqProcs THEN "detect_repository_languages" ELSE "none"]
    /\ args = [p \in Procs |-> NoArgs]
    /\ cache_key = [p \in Procs |-> <<>>]
    /\ temp_dir = [p \in Procs |-> 1]
    /\ authenticated_url = [p \in Procs |-> <<>>]
    /\ entry = [p \in Procs |-> Absent]
    /\ trace = [p \in Procs |-> <<>>]
    /\ ret = [p \in Procs |-> 0]
    /\ last = [p \in Procs |-> NoLast]
    /\ dirty = FALSE
    /\ calls = 0
    /\ language = [p \in Procs |-> None]
    /\ \E t \in Trees : workspace = [p \in Procs |-> IF p \in SeqProcs THEN t ELSE <<>>]
    /\ detected_languages = [p \in Procs |-> <<>>]
    /\ todo = [p \in Procs |-> <<>>]
    /\ child = [p \in Procs |-> Missing]
    /\ results = [p \in Procs |-> NoReport]
    /\ runlog = [p \in Procs |-> <<>>]

\* lines 462-502: the walk, and the confidences returned.
DetectLanguages(p) ==
    /\ op[p] = "detect_repository_languages"
    /\ pc[p] = "walk"
    /\ detected_languages' =
           [detected_languages EXCEPT ![p] = detect_repository_languages(workspace[p])]
    /\ Goto(p, "detected")
    /\ UNCHANGED <<fs, op, args, cache_key, temp_dir, authenticated_url, entry, trace,
                   ret, last, dirty, calls, language, workspace, todo, child, results,
                   runlog>>

NextDetect == \E p \in SeqProcs : DetectLanguages(p)

SpecDetect == InitDetect /\ [][NextDetect]_vars

\* ------------------------------------------------------------------ claims
Terminal == {"returned", "raised"}

\* pc[p] names the statement p is executing: these are the statements that
\* fetch in, switch, delete or clone into the slot directory.
InSlot(p) ==
    pc[p] \in {"fetch", "checkout", "rm_mismatch", "rm_except", "cloning", "rm_clonefail"}

\* C1: concurrent clone_repo calls that derive the same cache key are never
\* at the same time cloning into, fetching in or deleting the same slot
\* directory.
C1_AcquisitionSerializedPerKey ==
    \A p, q \in Procs :
        (p # q /\ InSlot(p) /\ InSlot(q)) => temp_dir[p] # temp_dir[q]

\* The slot found by the call opens as a non-bare repository with the
\* remote the identity expects.
EntryValid(p) ==
    /\ entry[p].kind = "repo"
    /\ entry[p].remote = authenticated_url[p]

\* C2: when the slot found is valid and the fetch fails, the slot is kept
\* untouched (no delete, no re-clone) and the call does not fail: it returns
\* the slot's path.
C2_FetchFailureKeepsSlot ==
    \A p \in Procs :
        (EntryValid(p) /\ Contains(trace[p], "fetch!")) =>
            /\ ~Contains(trace[p], "rmtree")
            /\ ~Contains(trace[p], "clone")
            /\ ~Contains(trace[p], "clone!")
            /\ fs[temp_dir[p]] = entry[p]
            /\ pc[p] # "raised"
            /\ (pc[p] = "returned" => ret[p] = temp_dir[p])

\* The call of p follows a call with the same arguments that returned a
\* path, with no failure in either call and no outside change in between.
RepeatedAcquire(p) ==
    /\ pc[p] \in Terminal
    /\ last[p].valid
    /\ last[p].args = args[p]
    /\ last[p].outcome = "returned"
    /\ ~last[p].failed
    /\ ~last[p].disturbed
    /\ ~Failed(p)

\* C3: the second of two successive calls with the same identity returns
\* the same path, and performs a fetch on the existing slot (and the checkout
\* of the requested branch), no delete and no clone.
C3_SecondAcquireFetches ==
    \A p \in Procs :
        RepeatedAcquire(p) =>
            /\ pc[p] = "returned"
            /\ ret[p] = last[p].ret
            /\ trace[p] = IF Truthy(args[p].branch)
                          THEN <<"open", "fetch", "checkout">>
                          ELSE <<"open", "fetch">>

C3_Witness ==
    \E p \in Procs :
        /\ RepeatedAcquire(p)
        /\ ret[p] = last[p].ret
        /\ trace[p] = <<"open", "fetch", "checkout">>

\* The slot found by the call exists and cannot be opened, is bare, or
\* records another remote than the identity's authenticated URL.
EntryUnusable(p) ==
    /\ entry[p].kind # "absent"
    /\ \/ entry[p].kind \notin {"repo", "bare"}
       \/ entry[p].kind = "bare"
       \/ entry[p].remote # authenticated_url[p]

\* C4: a slot that cannot be opened, is bare or has a mismatched remote is
\* deleted and then cloned afresh into the same path; it is never fetched
\* from, and what is returned is the fresh clone (dirty: the slot has been
\* altered from outside after the call returned).
C4_UnusableSlotRecloned ==
    \A p \in Procs :
        EntryUnusable(p) =>
            /\ ~Contains(trace[p], "fetch")
            /\ ~Contains(trace[p], "fetch!")
            /\ ~Contains(trace[p], "checkout")
            /\ (Len(trace[p]) >= 1 => trace[p][1] \in {"open", "open!"})
            /\ (Len(trace[p]) >= 2 => trace[p][2] = "rmtree")
            /\ (Len(trace[p]) >= 3 => trace[p][3] = "makedirs")
            /\ (pc[p] \in Terminal => Len(trace[p]) >= 4 /\ trace[p][4] \in {"clone", "clone!"})
            /\ (pc[p] = "returned" =>
                   /\ trace[p] = <<trace[p][1], "rmtree", "makedirs", "clone">>
                   /\ ret[p] = temp_dir[p]
                   /\ (~dirty => fs[temp_dir[p]] = RepoAt(authenticated_url[p], args[p].branch)))

C4_Witness ==
    \E p \in Procs :
        /\ EntryUnusable(p)
        /\ entry[p].kind = "repo"
        /\ pc[p] = "returned"
        /\ trace[p] = <<"open", "rmtree", "makedirs", "clone">>
        /\ fs[temp_dir[p]] = RepoAt(authenticated_url[p], args[p].branch)

\* C5: when the clone fails, the slot directory is removed (the slot is
\* absent again) and the call raises instead of returning a path.
C5_CloneFailureLeavesNoSlot ==
    \A p \in Procs :
        /\ (pc[p] \in Terminal /\ Contains(trace[p], "clone!")) =>
               /\ pc[p] = "raised"
               /\ ret[p] = 0
               /\ fs[temp_dir[p]] = Absent
        /\ (pc[p] = "raised" => Contains(trace[p], "clone!"))

C5_Witness ==
    \E p \in Procs :
        /\ pc[p] = "raised"
        /\ trace[p] = <<"makedirs", "clone!", "rmtree">>
        /\ fs[temp_dir[p]] = Absent

\* Two identities with the same repo_url that differ only in the credential
\* or only in the branch.
DifferOnlyInSecretOrBranch(a, b) ==
    /\ a.repo_url = b.repo_url
    /\ \/ a.gitlab_credentials # b.gitlab_credentials /\ a.branch = b.branch
       \/ a.gitlab_credentials = b.gitlab_credentials /\ a.branch # b.branch

\* C6: two identities with the same repo_url that differ only in credential
\* secret (absent or present) or only in branch (absent or any name) get
\* distinct cache key strings.
C6_DistinctKeys ==
    \A p \in Procs :
        (last[p].valid /\ DifferOnlyInSecretOrBranch(last[p].args, args[p])) =>
            last[p].cache_key # cache_key[p]

\* The request of p has returned its report and its workspace was acquired.
RespondedWithWorkspace(p) ==
    /\ op[p] = "analyze_code_quality"
    /\ pc[p] = "responded"
    /\ ret[p] # 0

\* C7: every analyze_code_quality request whose workspace was acquired runs
\* run_trivy_scan and has its result in the report, whatever the languages
\* detected or overridden.
C7_TrivyAlwaysRun ==
    \A p \in Procs :
        RespondedWithWorkspace(p) =>
            \E i \in 1..Len(runlog[p]) :
                /\ runlog[p][i].tool = "trivy"
                /\ results[p].security_scan = runlog[p][i].result
                /\ results[p].security_scan # NoResult

\* The failures of an analyzer the claim names: binary missing, non-zero
\* exit, malformed output.
NamedFailure(b) ==
    \/ b.spawn = "missing"
    \/ b.spawn = "ok" /\ b.exits /\ (b.code # 0 \/ b.stdout = "malformed")

\* The tools of the request were dispatched, every analyzer was missing or
\* ran to its exit, and at least one failed in a way the claim names.
ToolFailureCase(p) ==
    /\ RespondedWithWorkspace(p)
    /\ runlog[p] # <<>>
    /\ \A i \in 1..Len(runlog[p]) : runlog[p][i].behaviour.spawn # "denied"
    /\ \E i \in 1..Len(runlog[p]) : NamedFailure(runlog[p][i].behaviour)

C9_HungToolTimesOut ==
    \A p \in Procs :
        (pc[p] = "wait" /\ child[p].spawn = "ok" /\ ~child[p].exits) =>
            ENABLED AnalyzeStep(p)

\* An analyzer process that exits zero with an empty stdout.
ExitsZeroEmpty(b) == b.spawn = "ok" /\ b.exits /\ b.code = 0 /\ b.stdout = "empty"

\* C10 as stated: for run_trivy_scan, run_gocyclo_analysis,
\* run_pylint_analysis, run_bandit_analysis and run_eslint_analysis, a
\* process that exits zero with empty stdout gives a no-findings result,
\* never an error.
C10_EmptyOutputIsNoFindings ==
    \A p \in Procs :
        \A i \in 1..Len(runlog[p]) :
            (/\ runlog[p][i].tool \in {"trivy", "gocyclo", "pylint", "bandit", "eslint"}
             /\ ExitsZeroEmpty(runlog[p][i].behaviour)) =>
                /\ ~runlog[p][i].result.error
                /\ runlog[p][i].result = Ok("no_findings")

\* C10 as amended: for an analyzer that exits zero with empty stdout,
\* run_gocyclo_analysis gives a no-findings result (empty metrics, no
\* error); run_pylint_analysis, run_bandit_analysis and run_eslint_analysis
\* give the error "No output from <tool>" and run_trivy_scan the error
\* "Failed to parse Trivy output"; none raises.
C10_EmptyOutputPerWrapper ==
    \A p \in Procs :
        \A i \in 1..Len(runlog[p]) :
            ExitsZeroEmpty(runlog[p][i].behaviour) =>
                LET t == runlog[p][i].tool
                    r == runlog[p][i].result
                IN /\ (t = "gocyclo" => r = Ok("no_findings"))
                   /\ (t = "pylint" => r = Err("No output from pylint"))
                   /\ (t = "bandit" => r = Err("No output from bandit"))
                   /\ (t = "eslint" => r = Err("No output from eslint"))
                   /\ (t = "trivy" => r = Err("Failed to parse Trivy output"))

C10_Witness ==
    \E p \in Procs :
        /\ pc[p] = "responded"
        /\ Len(runlog[p]) = 2
        /\ runlog[p][1].tool = "gocyclo"
        /\ ExitsZeroEmpty(runlog[p][1].behaviour)
        /\ results[p].analysis[1].result = Ok("no_findings")
        /\ ExitsZeroEmpty(runlog[p][2].behaviour)
        /\ results[p].security_scan = Err("Failed to parse Trivy output")

\* The string sub (not empty) occurs in the string s.
Occurs(sub, s) ==
    \E i \in 1..Len(s) :
        i + Len(sub) - 1 <= Len(s) /\ SubSeq(s, i, i + Len(sub) - 1) = sub

\* The slot of p's key was created by the call of p: the call cloned it and
\* nothing altered it since.
CreatedSlot(p) ==
    /\ pc[p] = "returned"
    /\ Contains(trace[p], "clone")
    /\ ~dirty

\* C11: the stored metadata of a slot, its directory name and its recorded
\* remote address, never contains the api_key of the identity that created
\* the slot.
C11_SecretNotInCacheMetadata ==
    \A p \in Procs :
        (CreatedSlot(p) /\ Truthy(args[p].gitlab_credentials)) =>
            /\ ~Occurs(args[p].gitlab_credentials.val, SlotName(temp_dir[p]))
            /\ ~Occurs(args[p].gitlab_credentials.val, fs[temp_dir[p]].remote)

\* The request of p has ended by returning a report.
Responded(p) == op[p] = "analyze_code_quality" /\ pc[p] = "responded"

\* C12: analyze_code_quality ends by returning a structured report, never by
\* an exception leaving the call: a failed acquisition, no language
\* detected, no tool for the language and an exception out of a wrapper give
\* a report with status error and a message, and in a report with status
\* success the failure of a tool is the error value of that tool's entry.
C12_AlwaysStructuredReport ==
    \A p \in Procs :
        /\ pc[p] # "escaped"
        /\ Responded(p) =>
               /\ results[p].status \in {"success", "error"}
               /\ (results[p].status = "error" <=>
                      \/ ret[p] = 0
                      \/ runlog[p] = <<>>
                      \/ \E i \in 1..Len(runlog[p]) : runlog[p][i].result.raises)
               /\ (results[p].status = "error" =>
                      /\ results[p].error # ""
                      /\ results[p].analysis = <<>>
                      /\ results[p].security_scan = NoResult)
               /\ (results[p].status = "success" =>
                      /\ results[p].error = ""
                      /\ \A i \in 1..Len(runlog[p]) :
                             IF runlog[p][i].lang = "security_scan"
                             THEN results[p].security_scan = runlog[p][i].result
                             ELSE results[p].analysis[i].result = runlog[p][i].result)

C12_Witness ==
    \E p \in Procs :
        /\ Responded(p)
        /\ Len(runlog[p]) = 2
        /\ runlog[p][1].behaviour = Missing
        /\ runlog[p][1].result.error
        /\ runlog[p][2].result = Raises("PermissionError")
        /\ results[p] = ErrorReport("Code quality analysis failed")

\* The request of p detected the languages of a workspace in which exactly
\* one Go file and one Java file are counted, and every wrapper it called
\* returned.
GoAndJavaCase(p) ==
    /\ RespondedWithWorkspace(p)
    /\ ~Truthy(language[p])
    /\ file_count(workspace[p], "go") = 1
    /\ file_count(workspace[p], "java") = 1
    /\ total_files(workspace[p]) = 2
    /\ \A i \in 1..Len(runlog[p]) : ~runlog[p][i].result.raises

\* C13: with one Go file and one Java file counted (confidence 1/2 each),
\* the report has an analysis entry for go (gocyclo) and one for java (pmd)
\* and the vulnerability scan: three tool results, each the result of its
\* own run.
C13_GoAndJavaGiveThreeResults ==
    \A p \in Procs :
        GoAndJavaCase(p) =>
            /\ results[p].status = "success"
            /\ Len(detected_languages[p]) = 2
            /\ \A i \in 1..2 :
                   detected_languages[p][i].num = 1 /\ detected_languages[p][i].den = 2
            /\ Len(results[p].analysis) = 2
            /\ {<<results[p].analysis[i].lang, results[p].analysis[i].tool>> : i \in 1..2}
                   = {<<"go", "gocyclo">>, <<"java", "pmd">>}
            /\ results[p].security_scan # NoResult
            /\ Len(runlog[p]) = 3
            /\ \A i \in 1..2 :
                   /\ runlog[p][i].tool = results[p].analysis[i].tool
                   /\ runlog[p][i].result = results[p].analysis[i].result
            /\ runlog[p][3].tool = "trivy"
            /\ runlog[p][3].result = results[p].security_scan

C13_Witness ==
    \E p \in Procs :
        /\ GoAndJavaCase(p)
        /\ workspace[p] = <<JavaFile, GoFile>>
        /\ results[p].analysis =
               <<[lang |-> "java", tool |-> "pmd", result |-> Ok("raw_output")],
                 [lang |-> "go", tool |-> "gocyclo", result |-> Ok("metrics")]>>
        /\ results[p].security_scan = Ok("parsed")

\* detect_repository_languages has returned to p.
Detected(p) == op[p] = "detect_repository_languages" /\ pc[p] = "detected"

\* The files of a tree counted for a language, and for any language.
FilesCountedFor(files, lang) == {i \in 1..Len(files) : Counted(files[i], lang)}
FilesCounted(files) == UNION {FilesCountedFor(files, l) : l \in Langs}

RECURSIVE SumNum(_)
\* The sum of the numerators of the confidences.
SumNum(d) == IF d = <<>> THEN 0 ELSE Head(d).num + SumNum(Tail(d))

\* C14: the mapping returned has exactly the languages with a counted file,
\* each with confidence (files counted for it) / (files counted for any
\* language), a value in (0,1]; the values sum to 1; with no file counted
\* the mapping is empty (so for an empty tree), and one counted .go file
\* alone gives {go: 1.0}.
C14_ConfidenceIsShareOfCounted ==
    \A p \in Procs :
        Detected(p) =>
            LET ws == workspace[p]
                d == detected_languages[p]
            IN /\ {d[i].lang : i \in 1..Len(d)}
                      = {l \in Langs : FilesCountedFor(ws, l) # {}}
               /\ \A i, j \in 1..Len(d) : d[i].lang = d[j].lang => i = j
               /\ \A i \in 1..Len(d) :
                      /\ d[i].num = Cardinality(FilesCountedFor(ws, d[i].lang))
                      /\ d[i].den = Cardinality(FilesCounted(ws))
                      /\ 0 < d[i].num /\ d[i].num <= d[i].den
               /\ (d # <<>> => SumNum(d) = d[1].den)
               /\ (FilesCounted(ws) = {} => d = <<>>)
               /\ (ws = <<>> => d = <<>>)
               /\ (ws = <<GoFile>> => d = <<[lang |-> "go", num |-> 1, den |-> 1]>>)

C14_Witness ==
    \E p \in Procs :
        /\ Detected(p)
        /\ workspace[p] = <<GoFile, KtFile, GoFile>>
        /\ detected_languages[p] =
               <<[lang |-> "go", num |-> 2, den |-> 3], [lang |-> "java", num |-> 1, den |-> 3]>>

\* The directory paths that lie in the version-control metadata directory
\* .git (a path under .github does not).
VcsMetadataRoots == {<<"/", ".git", "/hooks">>}
InVcsMetadata(f) == f.root \in VcsMetadataRoots

\* The conditions without which a file must not count for a language.
Eligible(f, lang) ==
    /\ ~InVcsMetadata(f)
    /\ f.size <= SizeCeiling
    /\ f.ext \in LANGUAGE_PATTERNS[lang].extensions
    /\ f.markers \cap LANGUAGE_PATTERNS[lang].markers # {}

\* The number of files counted for lang that the mapping d stands for.
NumFor(d, lang) ==
    IF \E i \in 1..Len(d) : d[i].lang = lang
    THEN d[CHOOSE i \in 1..Len(d) : d[i].lang = lang].num
    ELSE 0

C15_EverySelectedToolRun ==
    \A p \in Procs :
        (RespondedWithWorkspace(p) /\ results[p].status = "success") =>
            \A t \in get_analysis_tools(detected_languages[p]) :
                \E i \in 1..Len(runlog[p]) :
                    /\ runlog[p][i].tool = t
                    /\ IF t = "trivy"
                       THEN results[p].security_scan = runlog[p][i].result
                       ELSE results[p].analysis[i].tool = t

\* C17: whatever open, fetch, checkout and clone did in this and the earlier
\* calls, a call that returned gave the path of its slot, and the slot (as
\* long as nothing alters it from outside) is a non-bare repository whose
\* remote is the authenticated URL of the call; after a call that raised,
\* the slot directory of its key does not exist.
C17_ReturnedSlotIsUsable ==
    \A p \in Procs :
        /\ pc[p] = "returned" =>
               /\ ret[p] = temp_dir[p]
               /\ ret[p] = repo_hash(cache_key_of(args[p].repo_url,
                                                   args[p].gitlab_credentials, args[p].branch))
               /\ ~dirty =>
                      /\ fs[ret[p]].kind = "repo"
                      /\ fs[ret[p]].remote =
                             get_authenticated_url(args[p].repo_url, args[p].gitlab_credentials)
        /\ pc[p] = "raised" =>
               /\ ret[p] = 0
               /\ fs[temp_dir[p]].kind = "absent"

C17_Witness ==
    \E p \in Procs :
        /\ pc[p] = "returned"
        /\ last[p].outcome = "returned"
        /\ last[p].args # args[p]
        /\ trace[p] = <<"open", "fetch", "checkout!", "rmtree", "makedirs", "clone">>
        /\ ~dirty
        /\ fs[ret[p]].kind = "repo"
        /\ fs[ret[p]].remote = authenticated_url[p]

====
